---- MODULE Spec2Model ----
(***************************************************************************)
(* Model of src/app.py: a Shiny (Python) exploratory-data-analysis app.    *)
(*                                                                         *)
(* The server function declares two reactive calcs (uploaded_data,         *)
(* filtered_data), three event-gated effects (update_num_column_choices,   *)
(* update_cat_column_choices, update_slider_range) and nine outputs.  The  *)
(* model keeps the server-side input values, the memoised calc values, the *)
(* last rendered value of every output, the widgets' client-side state     *)
(* (offered choices, slider limits) and the update messages the effects    *)
(* have sent to the client and the client has not yet answered.            *)
(*                                                                         *)
(* Data frames are column oriented, as in pandas: a frame is a sequence of *)
(* columns (name, dtype, cells) plus the row index; a cell is a tagged     *)
(* record so that numbers, strings, booleans and NaN stay distinguishable. *)
(* Numbers are integers standing for the floats of the same value          *)
(* (float() of an int64 is exact for the magnitudes used here).            *)
(***************************************************************************)
EXTENDS Integers, Sequences, FiniteSets, TLC

VARIABLES input, data, filtered, out, client, pending, last

vars == <<input, data, filtered, out, client, pending, last>>

(***************************************************************************)
(* Values                                                                  *)
(***************************************************************************)

\* Python's None as the value of a select input (no option selected).
PyNone == "<None>"

\* The scatter_color sentinel choice, the string "None" (app.py line 77).
NoneChoice == "None"

N(i) == [t |-> "num", n |-> i, s |-> ""]

S(x) == [t |-> "str", n |-> 0, s |-> x]

B(b) == [t |-> "bool", n |-> IF b THEN 1 ELSE 0, s |-> ""]

NaN == [t |-> "nan", n |-> 0, s |-> ""]

Column(name, dtype, vals) == [name |-> name, dtype |-> dtype, vals |-> vals]

\* A DataFrame: its columns and its row index (the original row numbers).
Frame(cols, index) == [present |-> TRUE, cols |-> cols, index |-> index]

\* What a calc returns for "no dataset": Python's None.
NoData == [present |-> FALSE, cols |-> <<>>, index |-> <<>>]

\* pd.DataFrame(): no columns, no rows.
EmptyFrame == Frame(<<>>, <<>>)

Range(seq) == {seq[i] : i \in DOMAIN seq}

ColumnNames(df) == [i \in DOMAIN df.cols |-> df.cols[i].name]

\* `c in data.columns`
HasColumn(df, c) == \E i \in DOMAIN df.cols : df.cols[i].name = c

\* data[c]
GetColumn(df, c) == df.cols[CHOOSE i \in DOMAIN df.cols : df.cols[i].name = c]

\* len(data)
NRows(df) == Len(df.index)

\* data.empty: any axis of length 0
IsEmpty(df) == Len(df.cols) = 0 \/ Len(df.index) = 0

\* The positions 1..n at which keep holds, ascending.
RECURSIVE KeptPositions(_, _)
KeptPositions(n, keep) ==
    IF n = 0 THEN <<>>
    ELSE IF keep[n] THEN Append(KeptPositions(n - 1, keep), n)
         ELSE KeptPositions(n - 1, keep)

\* data[mask]: a new frame holding the rows where mask holds, in order.
BooleanIndex(df, mask) ==
    LET pos == KeptPositions(NRows(df), mask)
        take(seq) == [j \in DOMAIN pos |-> seq[pos[j]]]
    IN  Frame([i \in DOMAIN df.cols |->
                  Column(df.cols[i].name, df.cols[i].dtype, take(df.cols[i].vals))],
              take(df.index))

\* Series.dropna()
DropNa(vals) ==
    LET keep == [i \in DOMAIN vals |-> vals[i] /= NaN]
        pos == KeptPositions(Len(vals), keep)
    IN  [j \in DOMAIN pos |-> vals[pos[j]]]

\* Series.nunique(): distinct non-missing values
nunique(col) == Cardinality(Range(col.vals) \ {NaN})

\* data.select_dtypes(include=...).columns.tolist()
select_dtypes(df, include) ==
    LET ok(c) == c.dtype \in include
        sel == SelectSeq(df.cols, ok)
    IN  [i \in DOMAIN sel |-> sel[i].name]

NumericDtypes == {"int64", "float64"}

ObjectDtypes == {"object", "category"}

(***************************************************************************)
(* Uploads: the CSV files of the model and what pd.read_csv makes of them  *)
(***************************************************************************)

\* 1024 * 1024, the divisor of the size check (app.py line 92)
BytesPerMB == 1024 * 1024

\* The size cap in MB (app.py line 93)
MaxSizeMB == 15

\* The distinct-value threshold of the column classification (app.py line 110)
MaxCategories == 8

\* input.file() before any upload: None
NoFile == [present |-> FALSE, name |-> "", size |-> 0]

\* input.file()[0] after an upload: the file's name and declared size
FileInfo(name, size) == [present |-> TRUE, name |-> name, size |-> size]

Ints(lo, hi) == [i \in 1..(hi - lo + 1) |-> N(lo + i - 1)]

Cycle(n, cells) == [i \in 1..n |-> cells[((i - 1) % Len(cells)) + 1]]

\* A.csv: two continuous columns (a with a missing value), a text column with
\* two categories and a missing value, a numeric column with two values.
FrameA ==
    Frame(<< Column("a", "float64", Ints(1, 9) \o <<NaN>>),
             Column("b", "int64", Ints(11, 19) \o <<N(15)>>),
             Column("g", "object", Cycle(9, <<S("x"), S("y")>>) \o <<NaN>>),
             Column("k", "int64", Cycle(10, <<N(1), N(2)>>)) >>,
          [i \in 1..10 |-> i])

\* B.csv: a continuous column named as A.csv's but with other values, a text
\* column with nine categories, a True/False column (read as dtype bool).
FrameB ==
    Frame(<< Column("a", "int64", Ints(5, 13)),
             Column("t", "object", [i \in 1..9 |-> S(<<"s1", "s2", "s3", "s4", "s5",
                                                       "s6", "s7", "s8", "s9">>[i])]),
             Column("f", "bool", Cycle(9, <<B(TRUE), B(FALSE)>>)) >>,
          [i \in 1..9 |-> i])

\* C.csv: no continuous column; a numeric column with three values, then a
\* text column named a.
FrameC ==
    Frame(<< Column("k", "int64", Ints(1, 3)),
             Column("a", "object", <<S("x"), S("y"), S("x")>>) >>,
          [i \in 1..3 |-> i])

\* E.csv: a header line only; pandas gives every column dtype object.
FrameE ==
    Frame(<< Column("b", "object", <<>>), Column("g", "object", <<>>) >>, <<>>)

\* pd.read_csv(datapath): the frame, or an exception (bad.csv is malformed).
read_csv(name) ==
    CASE name = "A.csv" -> [raises |-> FALSE, df |-> FrameA]
      [] name = "B.csv" -> [raises |-> FALSE, df |-> FrameB]
      [] name = "C.csv" -> [raises |-> FALSE, df |-> FrameC]
      [] name = "E.csv" -> [raises |-> FALSE, df |-> FrameE]
      [] OTHER -> [raises |-> TRUE, df |-> NoData]

\* The uploads a user makes in the model: each file with a declared size.
Uploads ==
    { FileInfo("A.csv", MaxSizeMB * BytesPerMB),
      FileInfo("A.csv", MaxSizeMB * BytesPerMB + 1),
      FileInfo("B.csv", 4096),
      FileInfo("C.csv", 512),
      FileInfo("E.csv", 64),
      FileInfo("bad.csv", 100) }

(***************************************************************************)
(* The reactive calcs                                                      *)
(***************************************************************************)

\* Variant: the cap excludes a file of exactly 15 MB (>= for >).
FileTooLargeInclusive(size) == size >= MaxSizeMB * BytesPerMB

\* file[0]["size"] / (1024 * 1024) > 15.  The division by 2^20 is exact in
\* binary floating point, so the comparison is that of the exact quotient.
FileTooLarge(size) == size > MaxSizeMB * BytesPerMB

\* uploaded_data(): None without a file, for an oversized file, and when
\* read_csv raises; else the parsed frame.
uploaded_data(file) ==
    IF ~file.present THEN NoData
    ELSE IF FileTooLarge(file.size) THEN NoData
    ELSE LET r == read_csv(file.name)
         IN  IF r.raises THEN NoData ELSE r.df

\* Series.between(lo, hi, inclusive='both') is (s >= lo) & (s <= hi).  The
\* comparison of a str cell with a float raises TypeError; NaN compares False.
BetweenRaises(col) == \E i \in DOMAIN col.vals : col.vals[i].t = "str"

\* Variant: an exclusive lower end (inclusive='right').
CellBetweenRight(cell, lo, hi) ==
    /\ cell.t \in {"num", "bool"}
    /\ lo < cell.n
    /\ cell.n <= hi

CellBetween(cell, lo, hi) ==
    /\ cell.t \in {"num", "bool"}
    /\ lo <= cell.n
    /\ cell.n <= hi

between(col, lo, hi) == [i \in DOMAIN col.vals |-> CellBetween(col.vals[i], lo, hi)]

\* The guard of filtered_data (app.py line 157): the filter does not apply.
FilterBypassed(df, selected_col) ==
    \/ ~df.present
    \/ selected_col = PyNone
    \/ ~HasColumn(df, selected_col)

\* Variant: the guard answers None instead of the dataset.
filtered_data_none(df, selected_col, range_vals) ==
    IF FilterBypassed(df, selected_col) THEN NoData
    ELSE LET col == GetColumn(df, selected_col)
         IN  IF BetweenRaises(col) THEN df
             ELSE BooleanIndex(df, between(col, range_vals[1], range_vals[2]))

\* filtered_data(): the rows of the dataset whose value in the selected column
\* lies in the range; the dataset itself when the guard bypasses the filter or
\* the comparison raises (the except branch).
filtered_data(df, selected_col, range_vals) ==
    IF FilterBypassed(df, selected_col) THEN df
    ELSE LET col == GetColumn(df, selected_col)
         IN  IF BetweenRaises(col) THEN df
             ELSE BooleanIndex(df, between(col, range_vals[1], range_vals[2]))

(***************************************************************************)
(* The effects: each returns the update messages it sends to the client    *)
(***************************************************************************)

\* ui.update_select(id, choices=..., selected=...); selected is PyNone when
\* the call passes none.
SelectMsg(id, choices, selected) ==
    [id |-> id, choices |-> choices, selected |-> selected,
     min |-> 0, max |-> 0, value |-> <<0, 0>>]

\* ui.update_slider("range_filter", min=..., max=..., value=[...])
SliderMsg(lo, hi) ==
    [id |-> "range_filter", choices |-> <<>>, selected |-> PyNone,
     min |-> lo, max |-> hi, value |-> <<lo, hi>>]

\* continuous_cols (app.py lines 109-110)
continuous_cols(df) ==
    LET numeric_cols == select_dtypes(df, NumericDtypes)
        ok(c) == nunique(GetColumn(df, c)) > MaxCategories
    IN  SelectSeq(numeric_cols, ok)

\* valid_cat_cols (app.py lines 125-129)
valid_cat_cols(df) ==
    LET cat_cols == select_dtypes(df, ObjectDtypes)
        numeric_cols == select_dtypes(df, NumericDtypes)
        discrete(c) == nunique(GetColumn(df, c)) <= MaxCategories
        discrete_numeric_cols == SelectSeq(numeric_cols, discrete)
        all_cat_cols == cat_cols \o discrete_numeric_cols
    IN  SelectSeq(all_cat_cols, discrete)

\* Variant: scatter_y defaults to the first continuous column, like scatter_x.
scatter_y_first(cont) == cont[1]

\* The default of scatter_y (app.py line 114)
scatter_y_default(cont) == IF Len(cont) > 1 THEN cont[2] ELSE cont[1]

update_num_column_choices(df) ==
    IF df.present /\ ~IsEmpty(df)
    THEN LET cont == continuous_cols(df)
         IN  IF cont /= <<>>
             THEN << SelectMsg("num_column", cont, cont[1]),
                     SelectMsg("scatter_x", cont, cont[1]),
                     SelectMsg("scatter_y", cont, scatter_y_default(cont)) >>
             ELSE << SelectMsg("num_column", <<>>, PyNone),
                     SelectMsg("scatter_x", <<>>, PyNone),
                     SelectMsg("scatter_y", <<>>, PyNone) >>
    ELSE <<>>

update_cat_column_choices(df) ==
    IF df.present /\ ~IsEmpty(df)
    THEN LET valid == valid_cat_cols(df)
         IN  IF valid /= <<>>
             THEN << SelectMsg("cat_column", valid, valid[1]),
                     SelectMsg("scatter_color", <<NoneChoice>> \o valid, NoneChoice) >>
             ELSE << SelectMsg("cat_column", <<>>, PyNone),
                     SelectMsg("scatter_color", <<NoneChoice>>, PyNone) >>
    ELSE <<>>

NonMissing(col) == {col.vals[i].n : i \in {j \in DOMAIN col.vals : col.vals[j] /= NaN}}

SetMin(xs) == CHOOSE x \in xs : \A y \in xs : x <= y

SetMax(xs) == CHOOSE x \in xs : \A y \in xs : x >= y

\* update_slider_range(): the slider is reset to the selected column's
\* [min, max]; to [0, 100] when an extremum is NaN (no non-missing value) and
\* when float() of the extremum raises (a column holding strings).
update_slider_range(df, selected_col) ==
    IF df.present /\ HasColumn(df, selected_col)
    THEN LET col == GetColumn(df, selected_col)
         IN  IF BetweenRaises(col) THEN << SliderMsg(0, 100) >>
             ELSE IF NonMissing(col) = {} THEN << SliderMsg(0, 100) >>
             ELSE << SliderMsg(SetMin(NonMissing(col)), SetMax(NonMissing(col))) >>
    ELSE <<>>

(***************************************************************************)
(* The outputs.  A rendered value is a record: what kind of result it is,  *)
(* the frame it shows or plots, and the strings and numbers of its text.   *)
(* A chart is represented by the data handed to the plotting call.         *)
(***************************************************************************)

Rendered(kind, frame, text, nums) ==
    [kind |-> kind, frame |-> frame, text |-> text, nums |-> nums]

\* A render.plot function returning None: no chart.
NoChart == Rendered("none", EmptyFrame, <<>>, <<>>)

\* An exception escaping the render function: the output shows an error.
RenderError(what) == Rendered("error", EmptyFrame, <<what>>, <<>>)

\* file_info(): the name and the size, in KB below 1 MB and in MB from there
\* (the text carries the byte count the two-decimal figure is printed from).
file_info(file) ==
    IF ~file.present THEN Rendered("No file uploaded yet", EmptyFrame, <<>>, <<>>)
    ELSE IF file.size < BytesPerMB
         THEN Rendered("Uploaded file", EmptyFrame, <<file.name, "KB">>, <<file.size>>)
         ELSE Rendered("Uploaded file", EmptyFrame, <<file.name, "MB">>, <<file.size>>)

\* data.head(): the first five rows
head(df) == BooleanIndex(df, [i \in 1..NRows(df) |-> i <= 5])

file_preview(df) ==
    IF ~df.present THEN Rendered("grid", EmptyFrame, <<>>, <<>>)
    ELSE Rendered("grid", head(df), <<>>, <<>>)

\* One column of numeric_data.describe(): its count, min and max rows (the
\* mean, the deviation and the quartiles are functions of the same cells).
describe(col) ==
    LET xs == NonMissing(col)
    IN  Column(col.name, "float64",
               << N(Len(DropNa(col.vals))),
                  IF xs = {} THEN NaN ELSE N(SetMin(xs)),
                  IF xs = {} THEN NaN ELSE N(SetMax(xs)) >>)

summary_stats(fd) ==
    IF ~fd.present THEN Rendered("grid", EmptyFrame, <<>>, <<>>)
    ELSE LET names == select_dtypes(fd, NumericDtypes)
         IN  IF names = <<>> \/ NRows(fd) = 0
             THEN Rendered("note", EmptyFrame, <<"No numerical columns found">>, <<>>)
             ELSE Rendered("grid",
                           Frame([i \in DOMAIN names |-> describe(GetColumn(fd, names[i]))],
                                 <<1, 2, 3>>),
                           <<"count", "min", "max">>, <<>>)

CountMissing(col) == Cardinality({i \in DOMAIN col.vals : col.vals[i] = NaN})

\* missing_values(): one row per column of the raw dataset with its name,
\* dtype, missing count and complete count (the two percentages are these
\* counts over len(data)).
missing_values(df) ==
    IF ~df.present THEN Rendered("grid", EmptyFrame, <<>>, <<>>)
    ELSE Rendered("grid",
             Frame(<< Column("Column", "object",
                             [i \in DOMAIN df.cols |-> S(df.cols[i].name)]),
                      Column("Data Type", "object",
                             [i \in DOMAIN df.cols |-> S(df.cols[i].dtype)]),
                      Column("Missing Values", "int64",
                             [i \in DOMAIN df.cols |-> N(CountMissing(df.cols[i]))]),
                      Column("Complete Values", "int64",
                             [i \in DOMAIN df.cols |->
                                 N(Len(df.cols[i].vals) - CountMissing(df.cols[i]))]) >>,
                   [i \in DOMAIN df.cols |-> i]),
             <<>>, <<>>)

\* The guard shared by histogram and boxplot (app.py lines 237 and 257).  Past
\* the guard the chart is drawn from the column's non-missing values; a
\* failure of the drawing call is caught and gives None, as the guard does.
NumChartSkipped(fd, selected_col) ==
    \/ ~fd.present
    \/ selected_col = PyNone
    \/ ~HasColumn(fd, selected_col)

histogram(fd, selected_col) ==
    IF NumChartSkipped(fd, selected_col) THEN NoChart
    ELSE Rendered("hist",
                  Frame(<< Column(selected_col, GetColumn(fd, selected_col).dtype,
                                  DropNa(GetColumn(fd, selected_col).vals)) >>,
                        [i \in DOMAIN DropNa(GetColumn(fd, selected_col).vals) |-> i]),
                  <<selected_col>>, <<30>>)

boxplot(fd, selected_col) ==
    IF NumChartSkipped(fd, selected_col) THEN NoChart
    ELSE Rendered("box",
                  Frame(<< Column(selected_col, GetColumn(fd, selected_col).dtype,
                                  DropNa(GetColumn(fd, selected_col).vals)) >>,
                        [i \in DOMAIN DropNa(GetColumn(fd, selected_col).vals) |-> i]),
                  <<selected_col>>, <<>>)

\* Series.value_counts(): the distinct non-missing values with their counts,
\* by descending count.
value_counts(col) ==
    LET first == [i \in DOMAIN col.vals |->
                     /\ col.vals[i] /= NaN
                     /\ \A j \in 1..(i - 1) : col.vals[j] /= col.vals[i]]
        pos == KeptPositions(Len(col.vals), first)
        count(v) == Cardinality({i \in DOMAIN col.vals : col.vals[i] = v})
        more(p, q) == count(col.vals[p]) > count(col.vals[q])
        ord == SortSeq(pos, more)
    IN  Frame(<< Column(col.name, col.dtype, [j \in DOMAIN ord |-> col.vals[ord[j]]]),
                 Column("count", "int64", [j \in DOMAIN ord |-> N(count(col.vals[ord[j]]))]) >>,
              [j \in DOMAIN ord |-> j])

\* barplot(): the category counts of the raw dataset's selected column
barplot(df, selected_col) ==
    IF ~df.present \/ selected_col = PyNone \/ ~HasColumn(df, selected_col) THEN NoChart
    ELSE Rendered("bar", value_counts(GetColumn(df, selected_col)), <<selected_col>>, <<>>)

\* scatterplot(): the (x, y) points of the filtered view; with a colour
\* column that exists, only the rows whose category is not missing are drawn
\* (one group per category).
scatterplot(fd, x_col, y_col, color_col) ==
    IF \/ ~fd.present
       \/ x_col = PyNone
       \/ y_col = PyNone
       \/ ~HasColumn(fd, x_col)
       \/ ~HasColumn(fd, y_col)
    THEN NoChart
    ELSE IF color_col = NoneChoice \/ ~HasColumn(fd, color_col)
         THEN Rendered("scatter",
                       Frame(<<GetColumn(fd, x_col), GetColumn(fd, y_col)>>, fd.index),
                       <<x_col, y_col>>, <<>>)
         ELSE LET grouped == BooleanIndex(fd, [i \in 1..NRows(fd) |->
                                 GetColumn(fd, color_col).vals[i] /= NaN])
              IN  Rendered("scatter",
                           Frame(<< GetColumn(grouped, x_col), GetColumn(grouped, y_col),
                                    GetColumn(grouped, color_col) >>, grouped.index),
                           <<x_col, y_col, color_col>>, <<>>)

\* debug_info(): the three early answers, else the report.  raw_data[num_col]
\* (app.py line 362) raises KeyError when num_col is not a column of the raw
\* dataset; only cat_col is guarded by `in raw_data.columns`.
debug_info(fd, raw_data, inp) ==
    IF ~raw_data.present THEN Rendered("No data uploaded", EmptyFrame, <<>>, <<>>)
    ELSE IF inp.num_column = PyNone
         THEN Rendered("No numerical column selected", EmptyFrame, <<>>, <<>>)
    ELSE IF ~fd.present THEN Rendered("Filtered data is None", EmptyFrame, <<>>, <<>>)
    ELSE IF ~HasColumn(raw_data, inp.num_column) THEN RenderError("KeyError")
    ELSE Rendered("report", EmptyFrame,
                  << inp.num_column, inp.cat_column, inp.scatter_x, inp.scatter_y,
                     inp.scatter_color,
                     GetColumn(raw_data, inp.num_column).dtype,
                     IF HasColumn(raw_data, inp.cat_column)
                     THEN GetColumn(raw_data, inp.cat_column).dtype ELSE "N/A",
                     IF HasColumn(raw_data, inp.cat_column) THEN "unique" ELSE "N/A" >>,
                  << NRows(raw_data), Len(raw_data.cols), NRows(fd), Len(fd.cols),
                     inp.range_filter[1], inp.range_filter[2],
                     IF HasColumn(raw_data, inp.cat_column)
                     THEN nunique(GetColumn(raw_data, inp.cat_column)) ELSE 0 >>)

Outputs ==
    { "file_info", "file_preview", "summary_stats", "missing_values", "histogram",
      "boxplot", "barplot", "scatterplot", "debug_info" }

\* The value output o renders from the inputs and the calcs' values.
Render(o, inp, df, fd) ==
    CASE o = "file_info" -> file_info(inp.file)
      [] o = "file_preview" -> file_preview(df)
      [] o = "summary_stats" -> summary_stats(fd)
      [] o = "missing_values" -> missing_values(df)
      [] o = "histogram" -> histogram(fd, inp.num_column)
      [] o = "boxplot" -> boxplot(fd, inp.num_column)
      [] o = "barplot" -> barplot(df, inp.cat_column)
      [] o = "scatterplot" ->
            scatterplot(fd, inp.scatter_x, inp.scatter_y, inp.scatter_color)
      [] o = "debug_info" -> debug_info(fd, df, inp)

(***************************************************************************)
(* The reactive graph.  A calc, effect or output depends on the reactive   *)
(* values it read when it last ran; a change to one of them invalidates    *)
(* it, and an invalidated calc invalidates its readers in turn.  Every     *)
(* node has run under the current inputs, so what it last read is a        *)
(* function of the current state.                                          *)
(***************************************************************************)

Selects == {"num_column", "cat_column", "scatter_x", "scatter_y", "scatter_color"}

Calcs == {"uploaded_data", "filtered_data"}

Effects == {"update_num_column_choices", "update_cat_column_choices", "update_slider_range"}

Nodes == Calcs \cup Effects \cup Outputs

\* filtered_data reads input.range_filter only past its guard (line 160).
filtered_data_reads ==
    {"uploaded_data", "num_column"} \cup
    (IF FilterBypassed(data, input.num_column) THEN {} ELSE {"range_filter"})

\* Variant: barplot reads the filtered view, as the other charts do.
barplot_reads_filtered == {"filtered_data", "cat_column"}

\* barplot reads the raw dataset and the categorical selection (lines 278-279).
barplot_reads == {"uploaded_data", "cat_column"}

\* scatterplot reads the filtered view and the three scatter selections.
scatterplot_reads == {"filtered_data", "scatter_x", "scatter_y", "scatter_color"}

\* debug_info reads both calcs and all five selections before its early
\* returns (lines 342-348), and input.range_filter only in the report, after
\* raw_data[num_col] has been evaluated (lines 362-364).
debug_info_reads ==
    {"filtered_data", "uploaded_data"} \cup Selects \cup
    (IF /\ data.present
        /\ input.num_column /= PyNone
        /\ filtered.present
        /\ HasColumn(data, input.num_column)
     THEN {"range_filter"} ELSE {})

\* What node n read when it last ran.  The effects are gated by
\* @reactive.event: they depend on the event's input alone.
Reads(n) ==
    CASE n = "uploaded_data" -> {"file"}
      [] n = "filtered_data" -> filtered_data_reads
      [] n = "update_num_column_choices" -> {"file"}
      [] n = "update_cat_column_choices" -> {"file"}
      [] n = "update_slider_range" -> {"num_column"}
      [] n = "file_info" -> {"file"}
      [] n = "file_preview" -> {"uploaded_data"}
      [] n = "summary_stats" -> {"filtered_data"}
      [] n = "missing_values" -> {"uploaded_data"}
      [] n = "histogram" -> {"filtered_data", "num_column"}
      [] n = "boxplot" -> {"filtered_data", "num_column"}
      [] n = "barplot" -> barplot_reads
      [] n = "scatterplot" -> scatterplot_reads
      [] n = "debug_info" -> debug_info_reads

Readers(srcs) == {n \in Nodes : Reads(n) \cap srcs /= {}}

\* The nodes a change of the inputs in `changed` invalidates (the graph is
\* three levels deep: input, uploaded_data, filtered_data, output).
Invalidated(changed) ==
    LET l1 == Readers(changed)
        l2 == l1 \cup Readers(l1)
    IN  l2 \cup Readers(l2)

\* Variant: the filter drops the rows from the frame it is given (in place).
RawFilteredInPlace(df, fd) == fd

\* The frame the uploaded_data calc holds once filtered_data has run on it:
\* boolean indexing builds a new frame and leaves its operand alone.
RawAfterFilter(df, fd) == df

(***************************************************************************)
(* The state                                                               *)
(***************************************************************************)

\* The filter range a user may set: both handles on a tick within the
\* slider's limits (or on a limit), low handle not above the high one.
Ticks == {7}

SliderStops == {t \in Ticks \cup {client.min, client.max} :
                    client.min <= t /\ t <= client.max}

\* The server's input values before any upload (app.py lines 49-77): selects
\* without choices have no value; scatter_color shows "None"; the slider
\* spans [0, 100].
InitInput ==
    [file |-> NoFile, num_column |-> PyNone, cat_column |-> PyNone,
     scatter_x |-> PyNone, scatter_y |-> PyNone, scatter_color |-> NoneChoice,
     range_filter |-> <<0, 100>>]

InitClient ==
    [choices |-> [w \in Selects |-> IF w = "scatter_color" THEN <<NoneChoice>> ELSE <<>>],
     min |-> 0, max |-> 100]

\* The uploads and the widget changes a user makes in one session.
MaxUploads == 2

MaxChanges == 2

\* Bookkeeping for the properties: the last event, the user event that began
\* the current cascade, the user's uploads and widget changes so far, the
\* inputs the last flush found changed and the nodes it invalidated, the
\* number of runs of filtered_data since that user event, the column the
\* range bound was last set for, and the column and range-column of the last
\* filtering.
InitLast ==
    [event |-> "init", origin |-> "init", uploads |-> 0, changes |-> 0,
     changed |-> {}, inv |-> {}, fdRuns |-> 0,
     rangeFor |-> PyNone, fdApplied |-> FALSE, fdCol |-> PyNone, fdRangeFor |-> PyNone]

Init ==
    /\ input = InitInput
    /\ data = uploaded_data(NoFile)
    /\ filtered = filtered_data(uploaded_data(NoFile), PyNone, <<0, 100>>)
    /\ out = [o \in Outputs |->
                Render(o, InitInput, uploaded_data(NoFile),
                       filtered_data(uploaded_data(NoFile), PyNone, <<0, 100>>))]
    /\ client = InitClient
    /\ pending = <<>>
    /\ last = InitLast

\* One flush of the reactive graph after the inputs in `changed` took the
\* values of newInput: the invalidated calcs are recomputed, the invalidated
\* outputs re-rendered, and the invalidated effects run (an event-gated
\* effect is skipped while its event's value is None) and send their update
\* messages, which reach the client after the flush.
Flush(newInput, changed, event, origin) ==
    LET inv == Invalidated(changed)
        df == IF "uploaded_data" \in inv THEN uploaded_data(newInput.file) ELSE data
        fd == IF "filtered_data" \in inv
              THEN filtered_data(df, newInput.num_column, newInput.range_filter)
              ELSE filtered
        raw == IF "filtered_data" \in inv THEN RawAfterFilter(df, fd) ELSE df
        applied == "filtered_data" \in inv /\ ~FilterBypassed(df, newInput.num_column)
        rangeFor == IF "range_filter" \in changed THEN newInput.num_column
                    ELSE last.rangeFor
    IN  /\ input' = newInput
        /\ data' = raw
        /\ filtered' = fd
        /\ out' = [o \in Outputs |->
                     IF o \in inv THEN Render(o, newInput, raw, fd) ELSE out[o]]
        /\ pending' =
              (IF "update_num_column_choices" \in inv /\ newInput.file.present
               THEN update_num_column_choices(raw) ELSE <<>>)
              \o (IF "update_cat_column_choices" \in inv /\ newInput.file.present
                  THEN update_cat_column_choices(raw) ELSE <<>>)
              \o (IF "update_slider_range" \in inv /\ newInput.num_column /= PyNone
                  THEN update_slider_range(raw, newInput.num_column) ELSE <<>>)
        /\ last' = [event |-> event,
                    origin |-> origin,
                    uploads |-> last.uploads + (IF event = "upload" THEN 1 ELSE 0),
                    changes |-> last.changes
                                + (IF event \in {"upload", "client"} THEN 0 ELSE 1),
                    changed |-> changed,
                    inv |-> inv,
                    fdRuns |-> (IF origin = last.origin /\ event = "client"
                                THEN last.fdRuns ELSE 0)
                               + (IF "filtered_data" \in inv THEN 1 ELSE 0),
                    rangeFor |-> rangeFor,
                    fdApplied |-> IF "filtered_data" \in inv THEN applied
                                  ELSE last.fdApplied,
                    fdCol |-> IF "filtered_data" \in inv THEN newInput.num_column
                              ELSE last.fdCol,
                    fdRangeFor |-> IF "filtered_data" \in inv THEN rangeFor
                                   ELSE last.fdRangeFor]

Quiescent == pending = <<>>

MayUpload == Quiescent /\ last.uploads < MaxUploads

MayChange == Quiescent /\ last.changes < MaxChanges

(***************************************************************************)
(* The user's actions (taken when the client has no update to answer)      *)
(***************************************************************************)

\* The user uploads a file: input.file changes (a new upload is a new value
\* even for the same file, its datapath differs).
Upload ==
    /\ MayUpload
    /\ \E f \in Uploads :
          Flush([input EXCEPT !.file = f], {"file"}, "upload", "upload")
    /\ UNCHANGED client

SelectNumColumn ==
    /\ MayChange
    /\ \E c \in Range(client.choices["num_column"]) \ {input.num_column} :
          Flush([input EXCEPT !.num_column = c], {"num_column"},
                "num_column", "num_column")
    /\ UNCHANGED client

SelectCatColumn ==
    /\ MayChange
    /\ \E c \in Range(client.choices["cat_column"]) \ {input.cat_column} :
          Flush([input EXCEPT !.cat_column = c], {"cat_column"},
                "cat_column", "cat_column")
    /\ UNCHANGED client

SelectScatterX ==
    /\ MayChange
    /\ \E c \in Range(client.choices["scatter_x"]) \ {input.scatter_x} :
          Flush([input EXCEPT !.scatter_x = c], {"scatter_x"}, "scatter", "scatter")
    /\ UNCHANGED client

SelectScatterY ==
    /\ MayChange
    /\ \E c \in Range(client.choices["scatter_y"]) \ {input.scatter_y} :
          Flush([input EXCEPT !.scatter_y = c], {"scatter_y"}, "scatter", "scatter")
    /\ UNCHANGED client

SelectScatterColor ==
    /\ MayChange
    /\ \E c \in Range(client.choices["scatter_color"]) \ {input.scatter_color} :
          Flush([input EXCEPT !.scatter_color = c], {"scatter_color"},
                "scatter", "scatter")
    /\ UNCHANGED client

MoveSlider ==
    /\ MayChange
    /\ \E lo \in SliderStops, hi \in SliderStops :
          /\ lo <= hi
          /\ <<lo, hi>> /= input.range_filter
          /\ Flush([input EXCEPT !.range_filter = <<lo, hi>>], {"range_filter"},
                   "range_filter", "range_filter")
    /\ UNCHANGED client

(***************************************************************************)
(* The client answers the update messages of the last flush                *)
(***************************************************************************)

\* The value a select shows after update_select: the selected option; without
\* one, the first option, and no value when there is no option.
ClientSelectValue(choices, selected) ==
    IF selected /= PyNone THEN selected
    ELSE IF choices = <<>> THEN PyNone
    ELSE choices[1]

\* The last message for widget id among msgs, if any.
HasMsg(msgs, id) == \E i \in DOMAIN msgs : msgs[i].id = id

LastMsg(msgs, id) ==
    msgs[CHOOSE i \in DOMAIN msgs :
            /\ msgs[i].id = id
            /\ \A j \in DOMAIN msgs : msgs[j].id = id => j <= i]

ValueAfter(msgs, w) ==
    IF HasMsg(msgs, w)
    THEN ClientSelectValue(LastMsg(msgs, w).choices, LastMsg(msgs, w).selected)
    ELSE input[w]

\* The client applies every pending message to its widgets and sends the
\* widgets' values back in one batch; the server sets the inputs whose value
\* differs and flushes once.
ClientApply ==
    /\ ~Quiescent
    /\ LET newInput ==
              [file |-> input.file,
               num_column |-> ValueAfter(pending, "num_column"),
               cat_column |-> ValueAfter(pending, "cat_column"),
               scatter_x |-> ValueAfter(pending, "scatter_x"),
               scatter_y |-> ValueAfter(pending, "scatter_y"),
               scatter_color |-> ValueAfter(pending, "scatter_color"),
               range_filter |-> IF HasMsg(pending, "range_filter")
                                THEN LastMsg(pending, "range_filter").value
                                ELSE input.range_filter]
           changed == {w \in Selects : newInput[w] /= input[w]}
                      \cup (IF newInput.range_filter /= input.range_filter
                            THEN {"range_filter"} ELSE {})
       IN  /\ Flush(newInput, changed, "client", last.origin)
           /\ client' =
                 [choices |-> [w \in Selects |->
                                  IF HasMsg(pending, w) THEN LastMsg(pending, w).choices
                                  ELSE client.choices[w]],
                  min |-> IF HasMsg(pending, "range_filter")
                          THEN LastMsg(pending, "range_filter").min ELSE client.min,
                  max |-> IF HasMsg(pending, "range_filter")
                          THEN LastMsg(pending, "range_filter").max ELSE client.max]

Next ==
    \/ Upload
    \/ SelectNumColumn
    \/ SelectCatColumn
    \/ SelectScatterX
    \/ SelectScatterY
    \/ SelectScatterColor
    \/ MoveSlider
    \/ ClientApply

Spec == Init /\ [][Next]_vars

(***************************************************************************)
(* Properties                                                              *)
(***************************************************************************)

\* The positions of df's rows whose value in column c is a number (or a
\* boolean, which compares as 0 or 1) within [lo, hi]; a missing value and a
\* text value are in no range.
RowsInRange(df, c, lo, hi) ==
    {i \in 1..NRows(df) :
        LET v == GetColumn(df, c).vals[i]
        IN  v.t \in {"num", "bool"} /\ lo <= v.n /\ v.n <= hi}

\* view holds exactly the rows of df at the positions in rows, in df's order.
\* (The index of an uploaded frame numbers its rows 1..n.)
IsRowSubset(view, df, rows) ==
    /\ view.present
    /\ ColumnNames(view) = ColumnNames(df)
    /\ Range(view.index) = rows
    /\ \A j \in 1..(Len(view.index) - 1) : view.index[j] < view.index[j + 1]
    /\ \A k \in DOMAIN view.cols :
          /\ Len(view.cols[k].vals) = Len(view.index)
          /\ \A j \in DOMAIN view.index :
                view.cols[k].vals[j] = df.cols[k].vals[view.index[j]]

SelectedExists == data.present /\ input.num_column /= PyNone /\ HasColumn(data, input.num_column)

\* C1 (as stated): whenever the selected numeric column exists in the dataset,
\* the filtered view is exactly the rows whose value in it lies in [lo, hi],
\* ends included, missing values excluded.
C1_AsStated ==
    SelectedExists =>
        IsRowSubset(filtered, data,
                    RowsInRange(data, input.num_column,
                                input.range_filter[1], input.range_filter[2]))

\* C1 (amended): whenever the selected column exists in the dataset and holds
\* no text value, the filtered view is exactly the rows, in original order,
\* whose value v in it satisfies lo <= v <= hi, ends included, and a row with
\* a missing value is excluded; when the column holds text (a stale selection
\* naming a text column of a newly uploaded dataset) the view is the whole
\* dataset.
C1_RangeFilter ==
    SelectedExists =>
        IF \E i \in 1..NRows(data) : GetColumn(data, input.num_column).vals[i].t = "str"
        THEN filtered = data
        ELSE IsRowSubset(filtered, data,
                         RowsInRange(data, input.num_column,
                                     input.range_filter[1], input.range_filter[2]))

\* C1 witness: the filter has run on a column with a missing value; the rows
\* at the low end and at the high end are kept, the missing row is dropped,
\* and a row outside the range is dropped.
C1_Witness ==
    /\ SelectedExists
    /\ LET col == GetColumn(data, input.num_column)
           kept == Range(filtered.index)
       IN  /\ \E i \in kept : col.vals[i] = N(input.range_filter[1])
           /\ \E i \in kept : col.vals[i] = N(input.range_filter[2])
           /\ \E i \in 1..NRows(data) : col.vals[i] = NaN /\ i \notin kept
           /\ \E i \in 1..NRows(data) : col.vals[i].t = "num" /\ i \notin kept

\* C3: the dataset is absent whenever the latest upload carries no file, a
\* file of more than 15 * 1024 * 1024 bytes, or a file that does not parse,
\* whatever was uploaded before; a parsable file of exactly that size is
\* accepted.
C3_RejectedUploadAbsent ==
    /\ (\/ ~input.file.present
        \/ input.file.size > 15 * 1024 * 1024
        \/ input.file.name \notin {"A.csv", "B.csv", "C.csv", "E.csv"})
       => (~data.present /\ ~filtered.present)
    /\ (/\ input.file.present
        /\ input.file.size = 15 * 1024 * 1024
        /\ input.file.name \in {"A.csv", "B.csv", "C.csv", "E.csv"})
       => data.present

\* C3 witness: a second upload is rejected after a first one had succeeded
\* (the widgets still offer the first dataset's columns).
C3_Witness ==
    /\ last.uploads = 2
    /\ input.file.present
    /\ ~data.present
    /\ client.choices["num_column"] /= <<>>

\* C7: the filtered view is the dataset itself (absent when the dataset is
\* absent, all rows otherwise, whatever the range bound) whenever the dataset
\* is absent, no numeric column is selected, or the selected column is not a
\* column of the dataset.
C7_FilterIdentity ==
    (\/ ~data.present
     \/ input.num_column = PyNone
     \/ input.num_column \notin Range(ColumnNames(data)))
    => /\ filtered = data
       /\ filtered.present = data.present

\* C7 witness: a dataset with rows, a stale selection naming none of its
\* columns, and a range bound that would drop rows.
C7_Witness ==
    /\ data.present
    /\ NRows(data) > 0
    /\ input.num_column /= PyNone
    /\ ~HasColumn(data, input.num_column)
    /\ input.range_filter[2] < 100
    /\ NRows(filtered) = NRows(data)

\* The widgets have taken the defaults of the latest upload: the upload's
\* flush has run and the client has answered every update message.
Reclassified ==
    /\ last.origin = "upload"
    /\ last.event = "client"
    /\ Quiescent
    /\ data.present
    /\ ~IsEmpty(data)

IsNumeric(col) == col.dtype \in {"int64", "float64"}

Distinct(col) == Cardinality({v \in Range(col.vals) : v /= NaN})

Offered(w) == Range(client.choices[w])

\* C2: after the upload of a non-empty dataset, a column is offered as a
\* continuous choice iff it is numeric with more than 8 distinct values, and
\* as a categorical choice iff it has at most 8 distinct values, numeric or
\* not; no column is offered in both.
C2_Classification ==
    Reclassified =>
        \A i \in DOMAIN data.cols :
            LET col == data.cols[i]
                c == col.name
            IN  /\ \A w \in {"num_column", "scatter_x", "scatter_y"} :
                      c \in Offered(w) <=> (IsNumeric(col) /\ Distinct(col) > 8)
                /\ \A w \in {"cat_column", "scatter_color"} :
                      c \in Offered(w) <=> Distinct(col) <= 8
                /\ ~(c \in Offered("num_column") /\ c \in Offered("cat_column"))

\* The bound the range filter is reset to for column c of df.
ColumnBound(df, c) ==
    LET xs == {v.n : v \in {x \in Range(GetColumn(df, c).vals) : x /= NaN}}
    IN  IF xs = {} THEN <<0, 100>>
        ELSE << CHOOSE x \in xs : \A y \in xs : x <= y,
                CHOOSE x \in xs : \A y \in xs : x >= y >>

\* C4: once the effects have run to quiescence after the upload of a non-empty
\* dataset, or after a change of the numeric-column selection, the range bound
\* is [min, max] of the selected column over the current dataset.
C4_RangeReset ==
    (/\ Quiescent
     /\ \/ Reclassified
        \/ last.origin = "num_column"
     /\ SelectedExists)
    => input.range_filter = ColumnBound(data, input.num_column)

DerivedOutputs ==
    {"summary_stats", "histogram", "boxplot", "barplot", "scatterplot", "debug_info"}

StaleSelection ==
    /\ data.present
    /\ \E w \in Selects :
          input[w] \notin Range(ColumnNames(data)) /\ ~(w = "scatter_color" /\ input[w] = NoneChoice)

\* C5: with a dataset present and a selection that names none of its columns,
\* no derived output raises an error (each is absent, empty or explanatory).
C5_NoErrorOnStaleSelection ==
    StaleSelection => \A o \in DerivedOutputs : out[o].kind /= "error"

\* The columns of df that satisfy keep, in df's order.
NamesWhere(df, keep(_)) ==
    LET sel == SelectSeq(df.cols, keep)
    IN  [i \in DOMAIN sel |-> sel[i].name]

FirstOr(seq, default) == IF seq = <<>> THEN default ELSE seq[1]

C8_DatasetFrame ==
    [][ /\ (last'.event /= "upload" => data' = data)
        /\ (last'.changed = {"range_filter"} =>
               /\ out'["file_preview"] = out["file_preview"]
               /\ out'["missing_values"] = out["missing_values"]
               /\ out'["barplot"] = out["barplot"]
               /\ out'["file_preview"] = file_preview(data)
               /\ out'["barplot"] = barplot(data, input.cat_column)) ]_vars

\* C8 witness: the user has moved the slider, the filtered view has fewer rows
\* than the dataset, and the bar chart is drawn.
C8_Witness ==
    /\ last.event = "range_filter"
    /\ data.present
    /\ NRows(filtered) < NRows(data)
    /\ out["barplot"].kind = "bar"
    /\ out["file_preview"].frame /= EmptyFrame

\* C9: after a user's change of the numeric-column selection the filtered view
\* is computed at most once, and never from the new column with the range
\* bound set for another column.
C9_SingleRecompute ==
    last.origin = "num_column" =>
        /\ last.fdRuns <= 1
        /\ (last.fdApplied => last.fdCol = last.fdRangeFor)

ScatterInputs == {"scatter_x", "scatter_y", "scatter_color"}

FilteredReaders == {"summary_stats", "histogram", "boxplot", "scatterplot", "debug_info"}

\* C10 (as stated): a change of scatter selections alone invalidates only the
\* scatter chart; of cat_column alone only the bar chart and debug_info; of
\* the range bound alone only filtered_data and the outputs that read it.
C10_AsStated ==
    /\ (last.changed /= {} /\ last.changed \subseteq ScatterInputs)
          => last.inv \subseteq {"scatterplot"}
    /\ last.changed = {"cat_column"} => last.inv \subseteq {"barplot", "debug_info"}
    /\ last.changed = {"range_filter"}
          => last.inv \subseteq ({"filtered_data"} \cup FilteredReaders)

\* C10 (amended): a change of scatter_x, scatter_y or scatter_color alone
\* invalidates only the scatter chart and the debug_info view, which prints
\* the three scatter selections; a change of cat_column alone only the bar
\* chart and debug_info; a change of the range bound alone only filtered_data
\* and the outputs that read it.
C10_Invalidation ==
    /\ (last.changed /= {} /\ last.changed \subseteq ScatterInputs)
          => last.inv \subseteq {"scatterplot", "debug_info"}
    /\ last.changed = {"cat_column"} => last.inv \subseteq {"barplot", "debug_info"}
    /\ last.changed = {"range_filter"}
          => last.inv \subseteq ({"filtered_data"} \cup FilteredReaders)

\* C10 witness: a scatter selection alone has changed and the flush has
\* invalidated the scatter chart and debug_info.
C10_Witness ==
    /\ last.changed \in {{"scatter_x"}, {"scatter_y"}, {"scatter_color"}}
    /\ last.inv = {"scatterplot", "debug_info"}
    /\ out["scatterplot"].kind = "scatter"

====
